---- MODULE Spec2Model ----
(***************************************************************************)
(* Finite structure finders built on an SMT solver.                        *)
(*                                                                         *)
(*   example_groups.cpp  GroupFinder, PartialPreorderFinder and their      *)
(*                       main functions                                    *)
(*   unnamed/part_000    BitOps, FrameVariables, AxiomEncoder, FrameFinder *)
(*                       and its main                                      *)
(*                                                                         *)
(* Every program declares symbolic variables, asserts constraints, calls   *)
(* the solver's check once and, on SAT, extracts and re-verifies the       *)
(* model.  The solver is the external collaborator: its check returns SAT  *)
(* with some assignment satisfying every asserted constraint, UNSAT when   *)
(* there is none, or UNKNOWN.                                              *)
(***************************************************************************)
EXTENDS Integers, Sequences, FiniteSets, TLC

VARIABLES
    prog,        \* which main is running: "group", "preorder", "frame";
                 \* "bits" for the BitOps calls
    n,           \* cardinality (group) or universe size (preorder, frame)
    calls,       \* the optional encoder methods this run's main calls
    pc,          \* position in main
    nvars,       \* number of symbolic variables declared by the constructor
    asserted,    \* the solver's assertion set
    nchecks,     \* number of calls of solver.check()
    result,      \* z3::check_result of the last check: "none" before it
    model,       \* the assignment held by the solver after SAT
    extracted,   \* whether a concrete table / matrix was read from the model
    e,           \* concrete identity value read by GroupFinder::display_model
    table,       \* concrete table read by verify_group
    matrix,      \* concrete matrix read by display_model
    report,      \* PASS / FAIL lines printed by the verifiers
    ub,          \* a verifier read outside the table (undefined behaviour)
    printed,     \* the outcome line printed by main
    aborted,     \* a failed assert() ended the process
    bits         \* the BitOps calls under test

vars == <<prog, n, calls, pc, nvars, asserted, nchecks, result, model,
          extracted, e, table, matrix, report, ub, printed, aborted, bits>>

(***************************************************************************)
(* Bounds of the model.                                                    *)
(***************************************************************************)
\* largest group cardinality explored, next to the scenario's
MaxCard == 3
\* the group scenario: "Find a group of cardinality 4"
ScenarioCard == 4
\* how far outside [0, n) the solver may place an integer variable
Slack == 1
\* largest universe explored with every choice of the optional axioms of
\* PartialPreorderFinder
MaxFreeUniverse == 1
\* largest universe explored by FrameFinder's main
MaxFrameUniverse == 2
\* width of int in the BitOps calls under test
IntBits == 5
\* universe size of the preorder demonstration
DemoUniverse == 3
\* largest cardinality for which every table over [0, n) is explored
MaxTableCard == 3
\* largest cardinality for which every assignment of identity and the table,
\* in range or not, is explored
MaxIdentityCard == 2

\* candidate values of an integer variable
IntVals(card) == (0 - Slack)..(card - 1 + Slack)

(***************************************************************************)
(* int: two's complement of IntBits bits.                                  *)
(***************************************************************************)
Wrap == 2 ^ IntBits
IntMin == 0 - 2 ^ (IntBits - 1)
IntMax == 2 ^ (IntBits - 1) - 1
Ints == IntMin..IntMax

ToUnsigned(x) == x % Wrap
ToSigned(u) == IF u > IntMax THEN u - Wrap ELSE u
BitOf(x, k) == (ToUnsigned(x) \div 2 ^ k) % 2

RECURSIVE FromBits(_, _)
\* the unsigned value whose bit j is f[j], for j < k
FromBits(f, k) ==
    IF k = 0 THEN 0 ELSE f[k - 1] * 2 ^ (k - 1) + FromBits(f, k - 1)

\* x & y, x | y, x ^ y
BitAnd(x, y) ==
    ToSigned(FromBits([k \in 0..IntBits-1 |-> BitOf(x, k) * BitOf(y, k)], IntBits))
BitOr(x, y) ==
    ToSigned(FromBits([k \in 0..IntBits-1 |->
        IF BitOf(x, k) + BitOf(y, k) > 0 THEN 1 ELSE 0], IntBits))
BitXor(x, y) ==
    ToSigned(FromBits([k \in 0..IntBits-1 |-> (BitOf(x, k) + BitOf(y, k)) % 2], IntBits))
\* 1 << k, for k < IntBits - 1 (a larger shift overflows int)
ShiftLeftOne(k) == ToSigned((2 ^ k) % Wrap)
\* x >> 1 on a signed int: the sign bit is kept
ShiftRightOne(x) == x \div 2

(***************************************************************************)
(* namespace BitOps                                                        *)
(***************************************************************************)
contains(mask, k) == BitAnd(mask, ShiftLeftOne(k)) # 0
set_union(mask1, mask2) == BitOr(mask1, mask2)
set_intersection(mask1, mask2) == BitAnd(mask1, mask2)
\* the full mask taken as 1 << n
set_complement_no_minus(mask, size) == BitXor(ShiftLeftOne(size), mask)

\* ((1 << n) - 1) ^ mask
set_complement(mask, size) == BitXor(ShiftLeftOne(size) - 1, mask)
\* the test turned around: mask2 within mask1
is_subset_reversed(mask1, mask2) == BitOr(mask1, mask2) = mask1
\* the test of a proper subset
is_subset_proper(mask1, mask2) ==
    BitAnd(mask1, mask2) = mask1 /\ mask1 # mask2

\* (mask1 & mask2) == mask1
is_subset(mask1, mask2) == BitAnd(mask1, mask2) = mask1

\* FrameVariables / PartialPreorderFinder: powerset_size(1 << universe_size)
PowersetSize(size) == ShiftLeftOne(size)

(***************************************************************************)
(* Symbolic variables.  A model is the sequence of values of the declared  *)
(* variables in declaration order.                                         *)
(***************************************************************************)
\* GroupFinder: identity is declared by the initialiser list, then m_i_j
\* row by row in the constructor body
IdentityIdx == 1
MulIdx(i, j, card) == 2 + i * card + j
\* FrameVariables / PartialPreorderFinder: R_i_j row by row
RIdx(i, j, ps) == 1 + i * ps + j

\* one asserted proposition; the fields a..e name the constant indices that
\* the encoder baked into it
Con(kind, a, b, c, d, f) ==
    [kind |-> kind, a |-> a, b |-> b, c |-> c, d |-> d, f |-> f]

(***************************************************************************)
(* GroupFinder::add_group_axioms                                           *)
(***************************************************************************)
\* s.add(mul_table[i][j] >= 0 && mul_table[i][j] < n); s.add(identity ...)
\* the domain with the upper bound written <= n
DomainConstraintsInclusive(card) ==
    {Con("dom", i, j, 0, card + 1, 0) : i \in 0..card-1, j \in 0..card-1}
        \cup {Con("domid", 0, 0, 0, card, 0)}

\* fields c and d are the bounds: c <= variable < d
DomainConstraints(card) ==
    {Con("dom", i, j, 0, card, 0) : i \in 0..card-1, j \in 0..card-1}
        \cup {Con("domid", 0, 0, 0, card, 0)}

\* the loop over the candidate identities started at 1
IdentityConstraintsFromOne(card) ==
    {Con("leftid", a, ee, 0, 0, 0) : a \in 0..card-1, ee \in 1..card-1}
        \cup {Con("rightid", a, ee, 0, 0, 0) : a \in 0..card-1, ee \in 1..card-1}

\* mk_and(left_id), mk_and(right_id): each conjunct is kept as its own
\* proposition, implies(identity == ee, mul[ee][a] == a)
IdentityConstraints(card) ==
    {Con("leftid", a, ee, 0, 0, 0) : a \in 0..card-1, ee \in 0..card-1}
        \cup {Con("rightid", a, ee, 0, 0, 0) : a \in 0..card-1, ee \in 0..card-1}

\* the case split stopping one candidate short of n
AssocConstraintsShort(card) ==
    {Con("assoc", a, b, c, ab, bc) :
        a \in 0..card-1, b \in 0..card-1, c \in 0..card-1,
        ab \in 0..card-2, bc \in 0..card-2}

\* implies(mul[a][b] == ab && mul[b][c] == bc, mul[ab][c] == mul[a][bc])
AssocConstraints(card) ==
    {Con("assoc", a, b, c, ab, bc) :
        a \in 0..card-1, b \in 0..card-1, c \in 0..card-1,
        ab \in 0..card-1, bc \in 0..card-1}

\* the inverse axiom left out
InverseConstraintsMissing(card) == {}

\* mk_or(has_right_inv), mk_or(has_left_inv)
InverseConstraints(card) ==
    {Con("rinv", a, 0, 0, 0, 0) : a \in 0..card-1}
        \cup {Con("linv", a, 0, 0, 0, 0) : a \in 0..card-1}

GroupAxioms(card) ==
    DomainConstraints(card) \cup IdentityConstraints(card)
        \cup AssocConstraints(card) \cup InverseConstraints(card)

(***************************************************************************)
(* PartialPreorderFinder and AxiomEncoder.  ps is the powerset size.       *)
(***************************************************************************)
\* the reflexivity loop started at 1
ReflexivityConstraintsFromOne(ps) ==
    {Con("lit", i, i, 0, 0, 0) : i \in 1..ps-1}

\* s.add(R[i][i])
ReflexivityConstraints(ps) ==
    {Con("lit", i, i, 0, 0, 0) : i \in 0..ps-1}

\* s.add(implies(R[i][j] && R[j][k], R[i][k]))
TransitivityConstraints(ps) ==
    {Con("trans", i, j, k, 0, 0) : i \in 0..ps-1, j \in 0..ps-1, k \in 0..ps-1}

\* if (BitOps::is_subset(i, j)) s.add(R[i][j])
MonotonicityConstraints(ps) ==
    {Con("lit", p[1], p[2], 0, 0, 0) :
        p \in {q \in (0..ps-1) \X (0..ps-1) : is_subset(q[1], q[2])}}

\* the disjunction built and never asserted
StrictPairConstraintsMissing(ps) == {}

\* s.add(mk_or(has_strict_order)): one disjunction over all i != j
StrictPairConstraints(ps) ==
    {Con("strict", 0, 0, 0, 0, 0)}

\* the negated literal built and never added to the solver
NonTrivialityConstraintsMissing(ps) == {}
\* full_set and empty_set taken the other way round
NonTrivialityConstraintsSwapped(ps) ==
    {Con("neg", 0, ps - 1, 0, 0, 0)}

\* s.add(!R[full_set][empty_set]), full_set = vars.size() - 1
NonTrivialityConstraints(ps) ==
    {Con("neg", ps - 1, 0, 0, 0, 0)}

add_preorder_axioms(ps) ==
    ReflexivityConstraints(ps) \cup TransitivityConstraints(ps)

(***************************************************************************)
(* The solver.  Holds(c, A, card) is the truth of proposition c under the  *)
(* assignment A (every variable of c assigned); card is the table's side:  *)
(* the cardinality for a group, the powerset size for a preorder.          *)
(***************************************************************************)
Holds(c, A, card) ==
    CASE c.kind = "lit" -> A[RIdx(c.a, c.b, card)]
      [] c.kind = "neg" -> ~A[RIdx(c.a, c.b, card)]
      [] c.kind = "trans" ->
            (A[RIdx(c.a, c.b, card)] /\ A[RIdx(c.b, c.c, card)])
                => A[RIdx(c.a, c.c, card)]
      [] c.kind = "strict" ->
            \E i \in 0..card-1, j \in 0..card-1 :
                i # j /\ A[RIdx(i, j, card)] /\ ~A[RIdx(j, i, card)]
      [] c.kind = "dom" ->
            A[MulIdx(c.a, c.b, card)] >= c.c /\ A[MulIdx(c.a, c.b, card)] < c.d
      [] c.kind = "domid" ->
            A[IdentityIdx] >= c.c /\ A[IdentityIdx] < c.d
      [] c.kind = "leftid" ->
            (A[IdentityIdx] = c.b) => (A[MulIdx(c.b, c.a, card)] = c.a)
      [] c.kind = "rightid" ->
            (A[IdentityIdx] = c.b) => (A[MulIdx(c.a, c.b, card)] = c.a)
      [] c.kind = "assoc" ->
            (A[MulIdx(c.a, c.b, card)] = c.d /\ A[MulIdx(c.b, c.c, card)] = c.f)
                => (A[MulIdx(c.d, c.c, card)] = A[MulIdx(c.a, c.f, card)])
      [] c.kind = "rinv" ->
            \E b \in 0..card-1 : A[MulIdx(c.a, b, card)] = A[IdentityIdx]
      [] c.kind = "linv" ->
            \E b \in 0..card-1 : A[MulIdx(b, c.a, card)] = A[IdentityIdx]

\* the antecedent identity == ee of an identity implication
Antecedent(c, A) == A[IdentityIdx] = c.b

Max2(x, y) == IF x >= y THEN x ELSE y

\* the last declared variable that proposition c mentions
Level(c, card) ==
    CASE c.kind \in {"lit", "neg"} -> RIdx(c.a, c.b, card)
      [] c.kind = "trans" ->
            Max2(RIdx(c.a, c.b, card),
                 Max2(RIdx(c.b, c.c, card), RIdx(c.a, c.c, card)))
      [] c.kind = "strict" -> card * card
      [] c.kind = "dom" -> MulIdx(c.a, c.b, card)
      [] c.kind = "domid" -> IdentityIdx
      [] c.kind = "leftid" -> MulIdx(c.b, c.a, card)
      [] c.kind = "rightid" -> MulIdx(c.a, c.b, card)
      [] c.kind = "assoc" ->
            Max2(Max2(MulIdx(c.a, c.b, card), MulIdx(c.b, c.c, card)),
                 Max2(MulIdx(c.d, c.c, card), MulIdx(c.a, c.f, card)))
      [] c.kind = "rinv" -> MulIdx(c.a, card - 1, card)
      [] c.kind = "linv" -> MulIdx(card - 1, c.a, card)

\* all total assignments extending A that satisfy the propositions, found
\* variable by variable; byLevel[k] are the propositions decided once
\* variable k has a value
RECURSIVE Extend(_, _, _, _, _, _)
Extend(A, k, count, byLevel, vals, card) ==
    IF k > count THEN {A}
    ELSE UNION { Extend(B, k + 1, count, byLevel, vals, card) :
                    B \in { C \in {Append(A, v) : v \in vals} :
                              \A c \in byLevel[k] : Holds(c, C, card) } }

\* the satisfying assignments of an assertion set
Models(cons, count, vals, card) ==
    UNION { Extend(<<>>, 1, count, byLevel, vals, card) :
              byLevel \in {[k \in 1..count |-> {c \in cons : Level(c, card) = k}]} }

(***************************************************************************)
(* Model extraction and verification.                                      *)
(***************************************************************************)
PassFail(ok) == IF ok THEN "PASS" ELSE "FAIL"

\* nothing printed yet
Blank ==
    [identity |-> "-", associativity |-> "-", inverses |-> "-",
     reflexivity |-> "-", transitivity |-> "-", monotonicity |-> "-",
     non_triviality |-> "-"]

InRange(x, card) == x >= 0 /\ x < card

\* table[i][j] = m.eval(mul_table[i][j]).get_numeral_int()
ExtractTable(m, card) ==
    [i \in 0..card-1 |-> [j \in 0..card-1 |-> m[MulIdx(i, j, card)]]]

\* verify_group, "Check identity"
identity_ok(t, id, card) ==
    \A a \in 0..card-1 : t[id][a] = a /\ t[a][id] = a

\* the triples of the associativity loop in loop order
TripleNo(a, b, c, card) == (a * card + b) * card + c
OutsideAt(t, a, b, c, card) ==
    ~InRange(t[a][b], card) \/ ~InRange(t[b][c], card)
MismatchAt(t, a, b, c) == t[t[a][b]][c] # t[a][t[b][c]]

\* the triples at which the loop either indexes outside the table or finds
\* ab_c != a_bc
Events(t, card) ==
    {x \in (0..card-1) \X (0..card-1) \X (0..card-1) :
        OutsideAt(t, x[1], x[2], x[3], card) \/ MismatchAt(t, x[1], x[2], x[3])}

FirstEvent(t, card) ==
    CHOOSE x \in Events(t, card) :
        \A y \in Events(t, card) :
            TripleNo(x[1], x[2], x[3], card) <= TripleNo(y[1], y[2], y[3], card)

\* verify_group, "Check associativity": the loop stops at the first mismatch
assoc_ok(t, card) == Events(t, card) = {}

\* verify_group, "Check inverses"
inv_ok(t, id, card) ==
    \A a \in 0..card-1 :
        \E b \in 0..card-1 : t[a][b] = id /\ t[b][a] = id

\* verify_group reads table[e][a] or table[table[a][b]][c] outside the table
ReadsOutside(t, id, card) ==
    \/ card >= 1 /\ ~InRange(id, card)
    \/ /\ Events(t, card) # {}
       /\ LET x == FirstEvent(t, card) IN OutsideAt(t, x[1], x[2], x[3], card)

GroupReport(t, id, card) ==
    [Blank EXCEPT !.identity = PassFail(identity_ok(t, id, card)),
                  !.associativity = PassFail(assoc_ok(t, card)),
                  !.inverses = PassFail(inv_ok(t, id, card))]

\* matrix[i][j] = m.eval(R[i][j]).is_true()
ExtractMatrix(m, ps) ==
    [i \in 0..ps-1 |-> [j \in 0..ps-1 |-> m[RIdx(i, j, ps)] = TRUE]]

reflexive_ok(mx, ps) == \A i \in 0..ps-1 : mx[i][i]

transitive_ok(mx, ps) ==
    \A i \in 0..ps-1, j \in 0..ps-1, k \in 0..ps-1 :
        ~(mx[i][j] /\ mx[j][k] /\ ~mx[i][k])

monotonicity_ok(mx, ps) ==
    \A i \in 0..ps-1, j \in 0..ps-1 : ~(is_subset(i, j) /\ ~mx[i][j])

non_triviality_ok(mx, ps) == ~mx[ps - 1][0]

\* PartialPreorderFinder::verify_preorder: both lines are printed
PreorderReport(mx, ps) ==
    [Blank EXCEPT !.reflexivity = PassFail(reflexive_ok(mx, ps)),
                  !.transitivity = PassFail(transitive_ok(mx, ps))]

\* FrameFinder::verify_preorder, verify_monotonicity, verify_non_triviality:
\* each line is printed and then asserted, so the first FAIL is the last line
FrameReport(mx, ps) ==
    IF ~reflexive_ok(mx, ps) THEN [Blank EXCEPT !.reflexivity = "FAIL"]
    ELSE IF ~transitive_ok(mx, ps)
    THEN [Blank EXCEPT !.reflexivity = "PASS", !.transitivity = "FAIL"]
    ELSE IF ~monotonicity_ok(mx, ps)
    THEN [Blank EXCEPT !.reflexivity = "PASS", !.transitivity = "PASS",
                       !.monotonicity = "FAIL"]
    ELSE [Blank EXCEPT !.reflexivity = "PASS", !.transitivity = "PASS",
                       !.monotonicity = "PASS",
                       !.non_triviality = PassFail(non_triviality_ok(mx, ps))]

Failed(r) == \E f \in DOMAIN r : r[f] = "FAIL"

(***************************************************************************)
(* The programs.                                                           *)
(***************************************************************************)
NoBits == [mask |-> 0, once |-> 0, twice |-> 0, left |-> 0, count |-> 0]

Start(p, size, cs, b) ==
    /\ prog = p
    /\ n = size
    /\ calls = cs
    /\ pc = "start"
    /\ nvars = 0
    /\ asserted = {}
    /\ nchecks = 0
    /\ result = "none"
    /\ model = <<>>
    /\ extracted = FALSE
    /\ e = 0
    /\ table = <<>>
    /\ matrix = <<>>
    /\ report = Blank
    /\ ub = FALSE
    /\ printed = "none"
    /\ aborted = FALSE
    /\ bits = b

\* the side of the table: n for a group, 1 << n for a preorder
Side == IF prog = "group" THEN n ELSE PowersetSize(n)

\* what main still has to call before the check
Pending == IF pc = "core" THEN calls
           ELSE IF pc = "mono" THEN calls \ {"monotonicity"}
           ELSE {}

\* GroupFinder finder(ctx, n)
GroupFinder ==
    /\ prog = "group" /\ pc = "start"
    /\ nvars' = 1 + n * n
    /\ pc' = "constructed"
    /\ UNCHANGED <<prog, n, calls, asserted, nchecks, result, model, extracted,
                   e, table, matrix, report, ub, printed, aborted, bits>>

\* finder.add_group_axioms(s)
AddGroupAxioms ==
    /\ prog = "group" /\ pc = "constructed"
    /\ asserted' = asserted \cup GroupAxioms(n)
    /\ pc' = "encoded"
    /\ UNCHANGED <<prog, n, calls, nvars, nchecks, result, model, extracted,
                   e, table, matrix, report, ub, printed, aborted, bits>>

\* PartialPreorderFinder finder(ctx, n)
PartialPreorderFinder ==
    /\ prog = "preorder" /\ pc = "start"
    /\ nvars' = PowersetSize(n) * PowersetSize(n)
    /\ pc' = "constructed"
    /\ UNCHANGED <<prog, n, calls, asserted, nchecks, result, model, extracted,
                   e, table, matrix, report, ub, printed, aborted, bits>>

\* finder.add_preorder_axioms(s)
AddPreorderAxioms ==
    /\ prog = "preorder" /\ pc = "constructed"
    /\ asserted' = asserted \cup add_preorder_axioms(PowersetSize(n))
    /\ pc' = "core"
    /\ UNCHANGED <<prog, n, calls, nvars, nchecks, result, model, extracted,
                   e, table, matrix, report, ub, printed, aborted, bits>>

\* finder.add_monotonicity(s)
AddMonotonicity ==
    /\ prog = "preorder" /\ pc = "core" /\ "monotonicity" \in calls
    /\ asserted' = asserted \cup MonotonicityConstraints(PowersetSize(n))
    /\ pc' = "mono"
    /\ UNCHANGED <<prog, n, calls, nvars, nchecks, result, model, extracted,
                   e, table, matrix, report, ub, printed, aborted, bits>>

\* finder.require_nontrivial(s)
RequireNontrivial ==
    /\ prog = "preorder" /\ Pending = {"nontrivial"}
    /\ asserted' = asserted \cup StrictPairConstraints(PowersetSize(n))
    /\ pc' = "encoded"
    /\ UNCHANGED <<prog, n, calls, nvars, nchecks, result, model, extracted,
                   e, table, matrix, report, ub, printed, aborted, bits>>

\* FrameFinder finder(n)
FrameFinder ==
    /\ prog = "frame" /\ pc = "start"
    /\ nvars' = PowersetSize(n) * PowersetSize(n)
    /\ pc' = "constructed"
    /\ UNCHANGED <<prog, n, calls, asserted, nchecks, result, model, extracted,
                   e, table, matrix, report, ub, printed, aborted, bits>>

\* finder.encoder().encode_transitivity(finder.solver())
EncodeTransitivity ==
    /\ prog = "frame" /\ pc = "constructed"
    /\ asserted' = asserted \cup TransitivityConstraints(PowersetSize(n))
    /\ pc' = "trans"
    /\ UNCHANGED <<prog, n, calls, nvars, nchecks, result, model, extracted,
                   e, table, matrix, report, ub, printed, aborted, bits>>

\* finder.encoder().encode_monotonicity(finder.solver())
EncodeMonotonicity ==
    /\ prog = "frame" /\ pc = "trans"
    /\ asserted' = asserted \cup MonotonicityConstraints(PowersetSize(n))
    /\ pc' = "monotone"
    /\ UNCHANGED <<prog, n, calls, nvars, nchecks, result, model, extracted,
                   e, table, matrix, report, ub, printed, aborted, bits>>

\* finder.encoder().encode_non_triviality(finder.solver())
EncodeNonTriviality ==
    /\ prog = "frame" /\ pc = "monotone"
    /\ asserted' = asserted \cup NonTrivialityConstraints(PowersetSize(n))
    /\ pc' = "encoded"
    /\ UNCHANGED <<prog, n, calls, nvars, nchecks, result, model, extracted,
                   e, table, matrix, report, ub, printed, aborted, bits>>

\* every encoder call of main has returned
ReadyToCheck ==
    \/ pc = "encoded"
    \/ prog = "preorder" /\ pc \in {"core", "mono"} /\ Pending = {}

\* the values the solver may give a variable
Candidates == IF prog = "group" THEN IntVals(n) ELSE BOOLEAN

\* s.check(): SAT with one of the satisfying assignments, UNSAT when there is
\* none, or UNKNOWN
SolverCheck ==
    /\ ReadyToCheck
    /\ nchecks' = nchecks + 1
    /\ pc' = "checked"
    /\ \E ms \in {Models(asserted, nvars, Candidates, Side)} :
          \/ \E m \in ms : result' = "sat" /\ model' = m
          \/ ms = {} /\ result' = "unsat" /\ model' = <<>>
          \/ result' = "unknown" /\ model' = <<>>
    /\ UNCHANGED <<prog, n, calls, nvars, asserted, extracted, e, table,
                   matrix, report, ub, printed, aborted, bits>>

\* if (result == z3::sat): the SAT line, s.get_model()
MainSat ==
    /\ pc = "checked" /\ result = "sat"
    /\ printed' = "SAT"
    /\ pc' = "sat"
    /\ UNCHANGED <<prog, n, calls, nvars, asserted, nchecks, result, model,
                   extracted, e, table, matrix, report, ub, aborted, bits>>

\* the UNSAT branch without its output line
MainUnsatSilent ==
    /\ pc = "checked" /\ result = "unsat"
    /\ pc' = "reported"
    /\ UNCHANGED <<prog, n, calls, nvars, asserted, nchecks, result, model,
                   extracted, e, table, matrix, report, ub, printed, aborted,
                   bits>>

\* else if (result == z3::unsat)
MainUnsat ==
    /\ pc = "checked" /\ result = "unsat"
    /\ printed' = "UNSAT"
    /\ pc' = "reported"
    /\ UNCHANGED <<prog, n, calls, nvars, asserted, nchecks, result, model,
                   extracted, e, table, matrix, report, ub, aborted, bits>>

\* a two-way branch that prints UNSAT for whatever is not SAT
MainUnknownAsUnsat ==
    /\ pc = "checked" /\ result = "unknown"
    /\ printed' = "UNSAT"
    /\ pc' = "reported"
    /\ UNCHANGED <<prog, n, calls, nvars, asserted, nchecks, result, model,
                   extracted, e, table, matrix, report, ub, aborted, bits>>

\* else
MainUnknown ==
    /\ pc = "checked" /\ result = "unknown"
    /\ printed' = "UNKNOWN"
    /\ pc' = "reported"
    /\ UNCHANGED <<prog, n, calls, nvars, asserted, nchecks, result, model,
                   extracted, e, table, matrix, report, ub, aborted, bits>>

\* GroupFinder::display_model, which ends in verify_group
GroupDisplayModel ==
    /\ prog = "group" /\ pc = "sat"
    /\ e' = model[IdentityIdx]
    /\ table' = ExtractTable(model, n)
    /\ extracted' = TRUE
    /\ ub' = ReadsOutside(table', e', n)
    /\ IF ub'
       THEN /\ report' \in [DOMAIN Blank -> {"PASS", "FAIL"}]
            /\ aborted' \in BOOLEAN
       ELSE /\ report' = GroupReport(table', e', n)
            /\ aborted' = FALSE
    /\ pc' = IF aborted' THEN "aborted" ELSE "displayed"
    /\ UNCHANGED <<prog, n, calls, nvars, asserted, nchecks, result, model,
                   matrix, printed, bits>>

\* PartialPreorderFinder::display_model, which ends in verify_preorder
PreorderDisplayModel ==
    /\ prog = "preorder" /\ pc = "sat"
    /\ matrix' = ExtractMatrix(model, PowersetSize(n))
    /\ extracted' = TRUE
    /\ report' = PreorderReport(matrix', PowersetSize(n))
    /\ pc' = "displayed"
    /\ UNCHANGED <<prog, n, calls, nvars, asserted, nchecks, result, model,
                   e, table, ub, printed, aborted, bits>>

\* FrameFinder::display_model: a failed assert ends the process
FrameDisplayModel ==
    /\ prog = "frame" /\ pc = "sat"
    /\ matrix' = ExtractMatrix(model, PowersetSize(n))
    /\ extracted' = TRUE
    /\ report' = FrameReport(matrix', PowersetSize(n))
    /\ aborted' = Failed(report')
    /\ pc' = IF aborted' THEN "aborted" ELSE "displayed"
    /\ UNCHANGED <<prog, n, calls, nvars, asserted, nchecks, result, model,
                   e, table, ub, printed, bits>>

\* return 0
Return ==
    /\ pc \in {"displayed", "reported"}
    /\ pc' = "done"
    /\ UNCHANGED <<prog, n, calls, nvars, asserted, nchecks, result, model,
                   extracted, e, table, matrix, report, ub, printed, aborted,
                   bits>>

(***************************************************************************)
(* The BitOps functions, called on their own.                              *)
(***************************************************************************)
\* the loop counting its iterations
CardinalityBodyNoMask(b) ==
    [b EXCEPT !.count = b.count + 1, !.left = ShiftRightOne(b.left)]

\* body of the loop of BitOps::cardinality, b.left being the local mask:
\* count += mask & 1; mask >>= 1
CardinalityBody(b) ==
    [b EXCEPT !.count = b.count + BitAnd(b.left, 1),
              !.left = ShiftRightOne(b.left)]

\* BitOps::set_complement(mask, n)
CallSetComplement ==
    /\ prog = "bits" /\ pc = "start"
    /\ bits' = [bits EXCEPT !.once = set_complement(bits.mask, n)]
    /\ pc' = "complemented"
    /\ UNCHANGED <<prog, n, calls, nvars, asserted, nchecks, result, model,
                   extracted, e, table, matrix, report, ub, printed, aborted>>

\* BitOps::set_complement(BitOps::set_complement(mask, n), n)
CallSetComplementAgain ==
    /\ prog = "bits" /\ pc = "complemented"
    /\ bits' = [bits EXCEPT !.twice = set_complement(bits.once, n)]
    /\ pc' = "restored"
    /\ UNCHANGED <<prog, n, calls, nvars, asserted, nchecks, result, model,
                   extracted, e, table, matrix, report, ub, printed, aborted>>

\* BitOps::cardinality(mask): int count = 0.  The masks are the sets, which
\* are not negative (a negative mask never becomes 0 under >>)
CallCardinality ==
    /\ prog = "bits" /\ pc = "start" /\ bits.mask >= 0
    /\ bits' = [bits EXCEPT !.left = bits.mask, !.count = 0]
    /\ pc' = "loop"
    /\ UNCHANGED <<prog, n, calls, nvars, asserted, nchecks, result, model,
                   extracted, e, table, matrix, report, ub, printed, aborted>>

\* while (mask) { ... }
CardinalityLoop ==
    /\ prog = "bits" /\ pc = "loop" /\ bits.left # 0
    /\ bits' = CardinalityBody(bits)
    /\ UNCHANGED <<prog, n, calls, pc, nvars, asserted, nchecks, result, model,
                   extracted, e, table, matrix, report, ub, printed, aborted>>

\* return count
CardinalityReturn ==
    /\ prog = "bits" /\ pc = "loop" /\ bits.left = 0
    /\ pc' = "returned"
    /\ UNCHANGED <<prog, n, calls, nvars, asserted, nchecks, result, model,
                   extracted, e, table, matrix, report, ub, printed, aborted,
                   bits>>

(***************************************************************************)
(* The associativity part of add_group_axioms and of verify_group, applied *)
(* to an arbitrary table in place of a model found by the solver.          *)
(***************************************************************************)
\* an assignment of the variables of GroupFinder: identity, then the table
Assignment(id, t, card) ==
    [k \in 1..(1 + card * card) |-> IF k = IdentityIdx THEN id ELSE t[k - 1]]

StartOn(p, size, m) ==
    /\ prog = p
    /\ n = size
    /\ calls = {}
    /\ pc = "start"
    /\ nvars = 1 + size * size
    /\ asserted = {}
    /\ nchecks = 0
    /\ result = "none"
    /\ model = m
    /\ extracted = FALSE
    /\ e = 0
    /\ table = <<>>
    /\ matrix = <<>>
    /\ report = Blank
    /\ ub = FALSE
    /\ printed = "none"
    /\ aborted = FALSE
    /\ bits = NoBits

\* add_group_axioms, "AXIOM 2: Associativity"
EncodeAssociativity ==
    /\ prog = "assoc" /\ pc = "start"
    /\ asserted' = asserted \cup AssocConstraints(n)
    /\ pc' = "encoded"
    /\ UNCHANGED <<prog, n, calls, nvars, nchecks, result, model, extracted,
                   e, table, matrix, report, ub, printed, aborted, bits>>

\* verify_group, "Extract concrete table" and "Check associativity"
VerifyAssociativity ==
    /\ prog = "assoc" /\ pc = "encoded"
    /\ table' = ExtractTable(model, n)
    /\ extracted' = TRUE
    /\ report' = [Blank EXCEPT !.associativity = PassFail(assoc_ok(table', n))]
    /\ pc' = "verified"
    /\ UNCHANGED <<prog, n, calls, nvars, asserted, nchecks, result, model,
                   e, matrix, ub, printed, aborted, bits>>

(***************************************************************************)
(* The domain and identity parts of add_group_axioms and the identity      *)
(* check of verify_group, applied to an arbitrary assignment.              *)
(***************************************************************************)
\* add_group_axioms, "Domain constraint" and "AXIOM 1: Identity element"
EncodeIdentity ==
    /\ prog = "identity" /\ pc = "start"
    /\ asserted' = asserted \cup DomainConstraints(n) \cup IdentityConstraints(n)
    /\ pc' = "encoded"
    /\ UNCHANGED <<prog, n, calls, nvars, nchecks, result, model, extracted,
                   e, table, matrix, report, ub, printed, aborted, bits>>

\* display_model's e, then verify_group, "Extract concrete table" and
\* "Check identity": table[e][a] with e outside [0, n) reads outside the table
VerifyIdentity ==
    /\ prog = "identity" /\ pc = "encoded"
    /\ e' = model[IdentityIdx]
    /\ table' = ExtractTable(model, n)
    /\ extracted' = TRUE
    /\ ub' = (n >= 1 /\ ~InRange(e', n))
    /\ IF ub'
       THEN \E r \in {"PASS", "FAIL"} : report' = [Blank EXCEPT !.identity = r]
       ELSE report' =
              [Blank EXCEPT !.identity = PassFail(identity_ok(table', e', n))]
    /\ pc' = "verified"
    /\ UNCHANGED <<prog, n, calls, nvars, asserted, nchecks, result, model,
                   matrix, printed, aborted, bits>>

(***************************************************************************)
(* The domain part of add_group_axioms and verify_group, applied to an     *)
(* arbitrary assignment.                                                   *)
(***************************************************************************)
\* add_group_axioms, "Domain constraint"
EncodeDomain ==
    /\ prog = "domain" /\ pc = "start"
    /\ asserted' = asserted \cup DomainConstraints(n)
    /\ pc' = "encoded"
    /\ UNCHANGED <<prog, n, calls, nvars, nchecks, result, model, extracted,
                   e, table, matrix, report, ub, printed, aborted, bits>>

\* display_model and verify_group on the assignment: a lookup outside the
\* table is undefined, after it anything may be printed or the process end
VerifyGroup ==
    /\ prog = "domain" /\ pc = "encoded"
    /\ e' = model[IdentityIdx]
    /\ table' = ExtractTable(model, n)
    /\ extracted' = TRUE
    /\ ub' = ReadsOutside(table', e', n)
    /\ IF ub'
       THEN /\ \E i \in {"PASS", "FAIL"}, a \in {"PASS", "FAIL"},
                  v \in {"PASS", "FAIL"} :
                  report' = [Blank EXCEPT !.identity = i, !.associativity = a,
                                          !.inverses = v]
            /\ aborted' \in BOOLEAN
       ELSE /\ report' = GroupReport(table', e', n)
            /\ aborted' = FALSE
    /\ pc' = IF aborted' THEN "aborted" ELSE "verified"
    /\ UNCHANGED <<prog, n, calls, nvars, asserted, nchecks, result, model,
                   matrix, printed, bits>>

(***************************************************************************)
(* Specifications.                                                         *)
(***************************************************************************)
AllCalls == {"monotonicity", "nontrivial"}

InitGroup ==
    \E size \in (0..MaxCard) \cup {ScenarioCard} : Start("group", size, {}, NoBits)

InitPreorder ==
    \/ \E size \in 0..MaxFreeUniverse, cs \in SUBSET AllCalls :
          Start("preorder", size, cs, NoBits)
    \/ \E size \in 0..DemoUniverse : Start("preorder", size, AllCalls, NoBits)

InitFrame ==
    \E size \in (0..MaxFrameUniverse) \cup {DemoUniverse} :
        Start("frame", size, {}, NoBits)

Finish == MainSat \/ MainUnsat \/ MainUnknown \/ Return

NextGroup ==
    GroupFinder \/ AddGroupAxioms \/ SolverCheck \/ GroupDisplayModel \/ Finish

NextPreorder ==
    \/ PartialPreorderFinder \/ AddPreorderAxioms \/ AddMonotonicity
    \/ RequireNontrivial \/ SolverCheck \/ PreorderDisplayModel \/ Finish

NextFrame ==
    \/ FrameFinder \/ EncodeTransitivity \/ EncodeMonotonicity
    \/ EncodeNonTriviality \/ SolverCheck \/ FrameDisplayModel \/ Finish

\* every int as mask, every universe size for which 1 << n fits an int
InitBits ==
    \E mask \in Ints, size \in 0..IntBits-2 :
        Start("bits", size, {}, [NoBits EXCEPT !.mask = mask])

NextBits ==
    \/ CallSetComplement \/ CallSetComplementAgain
    \/ CallCardinality \/ CardinalityLoop \/ CardinalityReturn

Init == InitGroup \/ InitPreorder \/ InitFrame

Next ==
    \/ GroupFinder \/ AddGroupAxioms \/ GroupDisplayModel
    \/ PartialPreorderFinder \/ AddPreorderAxioms \/ AddMonotonicity
    \/ RequireNontrivial \/ PreorderDisplayModel
    \/ FrameFinder \/ EncodeTransitivity \/ EncodeMonotonicity
    \/ EncodeNonTriviality \/ FrameDisplayModel
    \/ SolverCheck \/ Finish

Spec == Init /\ [][Next]_vars
SpecGroup == InitGroup /\ [][NextGroup]_vars
SpecPreorder == InitPreorder /\ [][NextPreorder]_vars
SpecFrame == InitFrame /\ [][NextFrame]_vars
SpecBits == InitBits /\ [][NextBits]_vars
\* the calls run to completion: an enabled statement is executed
SpecBitsLive == SpecBits /\ WF_vars(NextBits)

\* every table of side 0..MaxTableCard whose entries lie in [0, n)
InitAssoc ==
    \E card \in 0..MaxTableCard :
        \E t \in [1..(card * card) -> 0..card-1] :
            StartOn("assoc", card, Assignment(0, t, card))

NextAssoc == EncodeAssociativity \/ VerifyAssociativity

SpecAssoc == InitAssoc /\ [][NextAssoc]_vars

\* every assignment of identity and of the table of side 0..MaxIdentityCard
\* that the solver may consider
InitIdentity ==
    \E card \in 0..MaxIdentityCard :
        \E id \in IntVals(card), t \in [1..(card * card) -> IntVals(card)] :
            StartOn("identity", card, Assignment(id, t, card))

NextIdentity == EncodeIdentity \/ VerifyIdentity

SpecIdentity == InitIdentity /\ [][NextIdentity]_vars

\* every assignment of identity and of the table of side 0..MaxIdentityCard
\* handed to the domain constraints and to the verifier
InitDomain ==
    \E card \in 0..MaxIdentityCard :
        \E id \in IntVals(card), t \in [1..(card * card) -> IntVals(card)] :
            StartOn("domain", card, Assignment(id, t, card))

NextDomain == EncodeDomain \/ VerifyGroup

SpecDomain == InitDomain /\ [][NextDomain]_vars

(***************************************************************************)
(* Properties.                                                             *)
(***************************************************************************)
Elems == 0..n-1

\* every entry of the extracted table and the identity lie in [0, n)
Closed ==
    /\ InRange(e, n)
    /\ \A i \in Elems, j \in Elems : InRange(table[i][j], n)

TwoSidedIdentity == \A a \in Elems : table[e][a] = a /\ table[a][e] = a

Associative ==
    \A a \in Elems, b \in Elems, c \in Elems :
        table[table[a][b]][c] = table[a][table[b][c]]

TwoSidedInverses ==
    \A a \in Elems : \E b \in Elems : table[a][b] = e /\ table[b][a] = e

\* C1: whatever assignment satisfying the constraints of add_group_axioms
\* the solver returns, the extracted table is closed, and verify_group
\* prints PASS three times: e is a two-sided identity, the table is
\* associative, and every element has one b that is its inverse on both
\* sides.
C1_GroupModelVerifies ==
    (prog = "group" /\ extracted) =>
        /\ Closed
        /\ ~ub /\ ~aborted
        /\ report.identity = "PASS" /\ TwoSidedIdentity
        /\ report.associativity = "PASS" /\ Associative
        /\ report.inverses = "PASS" /\ TwoSidedInverses

\* a verified group of three elements, in which an element is not its own
\* inverse
C1_Witness ==
    /\ prog = "group" /\ pc = "displayed" /\ n = MaxCard
    /\ \E a \in Elems : table[a][a] # e

LatinSquare ==
    \A i \in Elems, v \in Elems :
        /\ Cardinality({j \in Elems : table[i][j] = v}) = 1
        /\ Cardinality({j \in Elems : table[j][i] = v}) = 1

\* C2: for cardinality 4 the row and the column of the identity of every
\* model reproduce the argument, and every row and every column of the
\* table holds each of 0..3 exactly once.
C2_Card4LatinSquare ==
    (prog = "group" /\ extracted /\ n = ScenarioCard) =>
        Closed /\ TwoSidedIdentity /\ LatinSquare

\* the cyclic group of order 4 and the Klein four-group are both found
C2_Witness ==
    /\ prog = "group" /\ pc = "displayed" /\ n = ScenarioCard
    /\ \E a \in Elems : table[a][a] # e

Subsets == 0..PowersetSize(n)-1

Reflexive == \A i \in Subsets : matrix[i][i]

Transitive ==
    \A i \in Subsets, j \in Subsets, k \in Subsets :
        (matrix[i][j] /\ matrix[j][k]) => matrix[i][k]

\* R[i][j] for every pair of bitmasks with (i & j) == i
Monotone ==
    \A i \in Subsets, j \in Subsets : (BitAnd(i, j) = i) => matrix[i][j]

\* C3: every matrix extracted by PartialPreorderFinder is reflexive and
\* transitive, and verify_preorder prints PASS for both, whichever optional
\* axioms were asserted next to add_preorder_axioms.
C3_PreorderModelVerifies ==
    (prog = "preorder" /\ extracted) =>
        /\ Reflexive /\ report.reflexivity = "PASS"
        /\ Transitive /\ report.transitivity = "PASS"

\* a verified preorder of the two subsets of a one-element universe in which
\* the empty set is not below the full set: only add_preorder_axioms ran
C3_Witness ==
    /\ prog = "preorder" /\ pc = "displayed" /\ calls = {} /\ n = 1
    /\ ~matrix[0][1]

\* C4: once add_monotonicity or encode_monotonicity has run, every
\* extracted matrix relates i to j whenever (i & j) == i, and
\* verify_monotonicity prints PASS.
C4_MonotoneModel ==
    /\ (prog = "preorder" /\ "monotonicity" \in calls /\ extracted) => Monotone
    /\ (prog = "frame" /\ extracted) =>
          Monotone /\ report.monotonicity = "PASS"

\* FrameFinder displayed a model over the subsets of a two-element universe
C4_Witness ==
    /\ prog = "frame" /\ pc = "displayed" /\ n = MaxFrameUniverse
    /\ matrix[1][2] /\ ~matrix[2][1]

\* C5: for universe size 3 with the preorder axioms, monotonicity and
\* require_nontrivial, every extracted matrix is reflexive, transitive and
\* monotone, and some pair is not related both ways.
C5_Demo3NotTotal ==
    (prog = "preorder" /\ n = DemoUniverse /\ calls = AllCalls /\ extracted) =>
        /\ Reflexive /\ Transitive /\ Monotone
        /\ \E i \in Subsets, j \in Subsets : ~(matrix[i][j] /\ matrix[j][i])

\* a model over the 8 subsets that relates two incomparable subsets
C5_Witness ==
    /\ prog = "preorder" /\ n = DemoUniverse /\ calls = AllCalls
    /\ pc = "displayed"
    /\ matrix[1][2] /\ ~matrix[2][1]

\* R[full][empty] is asserted and so is its negation
Contradictory ==
    /\ Con("lit", PowersetSize(n) - 1, 0, 0, 0, 0) \in asserted
    /\ Con("neg", PowersetSize(n) - 1, 0, 0, 0, 0) \in asserted

\* C6: when R[full][empty] and not R[full][empty] are both asserted
\* (universe size 0), no assignment satisfies the assertion set, the check
\* never returns SAT, and the run whose check returned UNSAT prints UNSAT and
\* returns: nothing is extracted, no verifier runs, no assert fails.
C6_ContradictionUnsat ==
    (prog = "frame" /\ Contradictory) =>
        /\ pc = "encoded" => Models(asserted, nvars, Candidates, Side) = {}
        /\ result # "sat"
        /\ ~extracted /\ report = Blank /\ ~aborted /\ pc # "aborted"
        /\ (result = "unsat" /\ pc \in {"reported", "done"}) => printed = "UNSAT"

\* the run over the empty universe has reported UNSAT and returned
C6_Witness ==
    /\ prog = "frame" /\ Contradictory /\ n = 0
    /\ pc = "done" /\ printed = "UNSAT"

AfterCheck == {"checked", "sat", "displayed", "reported", "aborted", "done"}

\* what main asserts before it calls check
Expected ==
    IF prog = "group" THEN GroupAxioms(n)
    ELSE IF prog = "frame"
    THEN TransitivityConstraints(PowersetSize(n))
            \cup MonotonicityConstraints(PowersetSize(n))
            \cup NonTrivialityConstraints(PowersetSize(n))
    ELSE add_preorder_axioms(PowersetSize(n))
            \cup (IF "monotonicity" \in calls
                  THEN MonotonicityConstraints(PowersetSize(n)) ELSE {})
            \cup (IF "nontrivial" \in calls
                  THEN StrictPairConstraints(PowersetSize(n)) ELSE {})

C7_State ==
    /\ nchecks = IF pc \in AfterCheck THEN 1 ELSE 0
    /\ (pc \notin AfterCheck) => result = "none"
    /\ (extracted \/ report # Blank \/ printed = "SAT") => result = "sat"
    /\ (pc \in {"displayed", "done"} /\ result = "sat") =>
          extracted /\ printed = "SAT"
    /\ (result \in {"unsat", "unknown"}) =>
          ~aborted /\ pc \in {"checked", "reported", "done"}
    /\ (result = "unsat" /\ pc \in {"reported", "done"}) => printed = "UNSAT"
    /\ (result = "unknown" /\ pc \in {"reported", "done"}) =>
          printed = "UNKNOWN"

C7_Step ==
    /\ (nchecks' # nchecks) => (asserted = Expected /\ asserted' = asserted)
    /\ (nchecks >= 1) => (asserted' = asserted)

Diagonal ==
    \A i \in Subsets : Con("lit", i, i, 0, 0, 0) \in asserted

\* C10: the assertion set of both preorder programs holds R[i][i] for
\* every subset i by the time of the check: PartialPreorderFinder has it
\* from add_preorder_axioms on, FrameFinder only from encode_monotonicity
\* on, is_subset(i, i) being true of every i.
C10_DiagonalAsserted ==
    /\ (prog = "preorder" /\ pc \notin {"start", "constructed"}) => Diagonal
    /\ (prog = "frame" /\ pc \notin {"start", "constructed", "trans"}) =>
          Diagonal /\ \A i \in Subsets : is_subset(i, i)
    /\ (prog = "frame" /\ pc = "trans") =>
          \A i \in Subsets : Con("lit", i, i, 0, 0, 0) \notin asserted

\* FrameFinder's check was called over the 8 subsets
C10_Witness ==
    prog = "frame" /\ pc = "checked" /\ n = DemoUniverse /\ Diagonal

\* the masks of the subsets of a universe of n elements
InUniverse(mask) == mask >= 0 /\ mask < 2 ^ n

\* C8: complementing twice gives the mask back, for every int mask; the
\* complement of a mask inside the universe is inside the universe and
\* shares no bit with the mask.
C8_ComplementInvolution ==
    /\ (prog = "bits" /\ pc = "restored") => bits.twice = bits.mask
    /\ (prog = "bits" /\ pc \in {"complemented", "restored"}
            /\ InUniverse(bits.mask)) =>
          /\ InUniverse(bits.once)
          /\ \A k \in 0..IntBits-1 : BitOf(bits.once, k) + BitOf(bits.mask, k) <= 1
          /\ \A k \in 0..n-1 : BitOf(bits.once, k) + BitOf(bits.mask, k) = 1

\* a mask with bits outside the universe went through both calls
C8_Witness ==
    /\ prog = "bits" /\ pc = "restored" /\ n = 2
    /\ bits.mask = 0 - 3 /\ bits.twice = 0 - 3

\* the number of k < size with contains(mask, k)
Members(mask, size) == Cardinality({k \in 0..size-1 : contains(mask, k)})

C9_Returned ==
    (prog = "bits" /\ pc = "returned") =>
        \A size \in 0..IntBits-2 :
            /\ (bits.mask = ShiftLeftOne(size) - 1) => bits.count = size
            /\ (bits.mask >= 0 /\ bits.mask < 2 ^ size) =>
                  bits.count = Members(bits.mask, size)

\* C9: cardinality returns, n for the full mask (1 << n) - 1 and for every
\* mask of the universe the number of k < n with contains(mask, k).
C9_CardinalityCounts ==
    /\ [](C9_Returned)
    /\ (prog = "bits" /\ pc = "loop") ~> (pc = "returned")

\* cardinality returned 3 for the full mask of a three-element universe
C9_Witness ==
    /\ prog = "bits" /\ pc = "returned"
    /\ bits.mask = ShiftLeftOne(3) - 1 /\ bits.count = 3

\* the assignment satisfies every asserted proposition
Satisfied == \A c \in asserted : Holds(c, model, n)

\* C11: a table with entries in [0, n) satisfies all the implications
\* (mul[a][b] == ab and mul[b][c] == bc) implies mul[ab][c] == mul[a][bc]
\* exactly when table[table[a][b]][c] == table[a][table[b][c]] for all
\* a, b, c, which is exactly when verify_group prints PASS for associativity.
C11_CaseSplitIsAssociativity ==
    (prog = "assoc" /\ pc = "verified") =>
        /\ Satisfied <=> Associative
        /\ Associative <=> (report.associativity = "PASS")

\* a three-element table that is not associative only through products
\* equal to the last element was encoded and verified
C11_Witness ==
    /\ prog = "assoc" /\ pc = "verified" /\ n = MaxTableCard
    /\ ~Satisfied /\ report.associativity = "FAIL"
    /\ \A c \in asserted :
          (c.d < n - 1 /\ c.f < n - 1) => Holds(c, model, n)

\* the identity implications asserted for element a on one side
IdentityCases(side, a) == {c \in asserted : c.kind = side /\ c.a = a}

\* C12: when the assignment has 0 <= identity < n, for each element a
\* exactly one left and exactly one right identity implication has a true
\* antecedent, the one for the value of identity, and all the implications
\* together hold exactly when mul[identity][a] == a and mul[a][identity] == a
\* for every a, which is what verify_group's identity check reports.
C12_OneIdentityCase ==
    (prog = "identity" /\ pc \in {"encoded", "verified"}
        /\ Holds(Con("domid", 0, 0, 0, n, 0), model, n)) =>
        /\ \A a \in Elems, side \in {"leftid", "rightid"} :
              /\ Cardinality(IdentityCases(side, a)) = n
              /\ {c \in IdentityCases(side, a) : Antecedent(c, model)}
                    = {Con(side, a, model[IdentityIdx], 0, 0, 0)}
        /\ (\A c \in asserted :
               c.kind \in {"leftid", "rightid"} => Holds(c, model, n))
            <=> (\A a \in Elems :
                    /\ model[MulIdx(model[IdentityIdx], a, n)] = a
                    /\ model[MulIdx(a, model[IdentityIdx], n)] = a)
        /\ (pc = "verified") =>
              /\ ~ub
              /\ (report.identity = "PASS") <=>
                    (\A c \in asserted :
                        c.kind \in {"leftid", "rightid"} => Holds(c, model, n))

\* identity is the first element and the implications hold, although a
\* table entry away from its row and column lies outside [0, n)
C12_Witness ==
    /\ prog = "identity" /\ pc = "verified" /\ n = MaxIdentityCard
    /\ model[IdentityIdx] = 0 /\ report.identity = "PASS"
    /\ ~InRange(table[n - 1][n - 1], n)

\* some i != j with R[i][j] and not R[j][i]
StrictPair ==
    \E i \in Subsets, j \in Subsets : i # j /\ matrix[i][j] /\ ~matrix[j][i]

FullSet == PowersetSize(n) - 1

\* every matrix FrameFinder extracts over a universe of at least one element
\* has a strict pair
FrameModelsHaveStrictPair ==
    (prog = "frame" /\ extracted /\ n >= 1) => StrictPair

\* the assertion set before the check has a model with R[full][empty] true
SomeModelRelatesFullToEmpty ==
    \E m \in Models(asserted, nvars, Candidates, Side) :
        m[RIdx(FullSet, 0, PowersetSize(n))]

\* C13 as stated: not R[full][empty] is stricter than the strict pair.  Every
\* matrix of FrameFinder (transitivity, monotonicity, not R[full][empty]) has
\* a strict pair, while the strict-pair variant with the same other axioms
\* has a model in which R[full][empty] is true.
C13_StricterAsStated ==
    /\ FrameModelsHaveStrictPair
    /\ (prog = "preorder" /\ calls = AllCalls /\ pc = "encoded" /\ n >= 1) =>
          SomeModelRelatesFullToEmpty

\* C13 amended: every matrix of FrameFinder has a strict pair, and every
\* matrix satisfying the strict-pair variant next to transitivity and
\* monotonicity has R[full][empty] false, so under the same other axioms the
\* two variants accept the same matrices; the strict-pair variant accepts a
\* matrix with R[full][empty] true only when monotonicity is not asserted.
C13_VariantsAgreeUnderMonotonicity ==
    /\ FrameModelsHaveStrictPair
    /\ (prog = "preorder" /\ calls = AllCalls /\ extracted /\ n >= 1) =>
          ~matrix[FullSet][0]
    /\ (prog = "preorder" /\ calls = AllCalls /\ pc = "encoded" /\ n >= 1) =>
          ~SomeModelRelatesFullToEmpty
    /\ (prog = "preorder" /\ calls = {"nontrivial"} /\ pc = "encoded" /\ n >= 1) =>
          SomeModelRelatesFullToEmpty

\* a matrix of the strict-pair variant over two elements that relates a
\* subset to one it is not included in, and still not the full set to the
\* empty set
C13_Witness ==
    /\ prog = "preorder" /\ calls = AllCalls /\ pc = "displayed" /\ n = 2
    /\ matrix[2][1] /\ StrictPair /\ ~matrix[FullSet][0]

\* the four lines of FrameFinder's verifiers, all PASS
AllPass ==
    [Blank EXCEPT !.reflexivity = "PASS", !.transitivity = "PASS",
                  !.monotonicity = "PASS", !.non_triviality = "PASS"]

\* C14: whatever assignment satisfying the constraints of FrameFinder's main
\* the solver returns, the asserts on reflexive_ok, transitive_ok,
\* monotonicity_ok and non_triviality_ok all pass, so display_model returns
\* and the process is not aborted; the diagonal is true in the matrix
\* although main calls no reflexivity encoder.
C14_NoAssertFails ==
    (prog = "frame") =>
        /\ ~aborted /\ pc # "aborted"
        /\ extracted =>
              /\ report = AllPass
              /\ Reflexive /\ Transitive /\ Monotone /\ ~matrix[FullSet][0]
              /\ pc \in {"displayed", "done"}

\* main returned after displaying a matrix over the 8 subsets that relates
\* two subsets neither of which includes the other
C14_Witness ==
    /\ prog = "frame" /\ pc = "done" /\ n = DemoUniverse
    /\ report = AllPass /\ matrix[3][4] /\ ~matrix[4][3]

\* the indices of the four lookups of verify_group
LookupsInside ==
    /\ \A a \in Elems : InRange(e, n) /\ InRange(a, n)
    /\ \A a \in Elems, b \in Elems, c \in Elems :
          /\ InRange(table[a][b], n) /\ InRange(c, n)
          /\ InRange(a, n) /\ InRange(table[b][c], n)

\* C15: an assignment that satisfies the domain constraints of
\* add_group_axioms has identity and every table entry in [0, n), so the
\* lookups table[e][a], table[a][e], table[table[a][b]][c] and
\* table[a][table[b][c]] of verify_group stay inside the n x n table.
C15_LookupsInsideTable ==
    (prog = "domain" /\ pc # "start" /\ Satisfied) =>
        /\ InRange(model[IdentityIdx], n)
        /\ \A i \in Elems, j \in Elems : InRange(model[MulIdx(i, j, n)], n)
        /\ extracted => (Closed /\ LookupsInside /\ ~ub /\ ~aborted)

\* verify_group ran on a table of side 2 inside the domain that is not
\* associative
C15_Witness ==
    /\ prog = "domain" /\ pc = "verified" /\ n = MaxIdentityCard /\ Satisfied
    /\ report.associativity = "FAIL" /\ ~ub

\* the assignment R[i][j] = is_subset(i, j) of the variables R_i_j
Inclusion ==
    [k \in 1..(PowersetSize(n) * PowersetSize(n)) |->
        is_subset((k - 1) \div PowersetSize(n), (k - 1) % PowersetSize(n))]

\* C16: for a universe of at least one element, subset inclusion satisfies
\* everything either preorder program has asserted (reflexivity,
\* transitivity, monotonicity, and a strict pair, respectively not
\* R[full][empty]) up to the call of check, so the check of the assertion
\* set does not answer UNSAT.
C16_InclusionIsAModel ==
    (prog \in {"preorder", "frame"} /\ n >= 1) =>
        /\ (nchecks = 0) =>
              \A c \in asserted : Holds(c, Inclusion, PowersetSize(n))
        /\ result # "unsat" /\ printed # "UNSAT"

\* FrameFinder's solver returned subset inclusion itself over the 8 subsets
C16_Witness ==
    /\ prog = "frame" /\ n = DemoUniverse /\ pc = "displayed"
    /\ model = Inclusion /\ \A c \in asserted : Holds(c, model, PowersetSize(n))

====
